---- MODULE Spec2Model ----
(***************************************************************************)
(* Model of the Coderr marketplace backend (offers_app): offers with their *)
(* detail records, orders snapshotted from a detail record, and reviews.   *)
(* Every request handler of the REST views is one action; a handler whose  *)
(* database accesses can interleave with another request's (review         *)
(* creation: pre-check, then insert) is split at that point.               *)
(***************************************************************************)
EXTENDS Integers, Sequences, FiniteSets, TLC

(***************************************************************************)
(* Bounds of the model.                                                    *)
(***************************************************************************)
MaxOfferId == 2
MaxDetailId == 2
MaxOrderId == 2
MaxReviewId == 3
MaxDetails == 2
NumWorkers == 2
MaxPatchedDetailId == 4

(***************************************************************************)
(* Users.  CustomUser.type is 'customer' or 'business'; the anonymous      *)
(* caller is the request without credentials.                              *)
(***************************************************************************)
BusinessUsers == {"b1", "b2"}
CustomerUsers == {"c1"}
Users == BusinessUsers \cup CustomerUsers
\* a user with is_staff set; its type is neither of the two choices
StaffUsers == {"admin"}
Anonymous == "anon"
Callers == Users \cup {Anonymous}

UserType(u) ==
    IF u \in BusinessUsers THEN "business"
    ELSE IF u \in CustomerUsers THEN "customer"
    ELSE ""

is_staff(u) == u \in StaffUsers

(***************************************************************************)
(* Absent marks a key that the request payload does not carry; None is the *)
(* JSON null.                                                              *)
(***************************************************************************)
Absent == "ABSENT"
None == "NONE"

OFFER_TYPE_CHOICES == {"basic", "standard", "premium"}
STATUS_CHOICES == {"in_progress", "completed", "cancelled"}

\* price is a decimal with two places, counted here in cents
MinPrice == 1
MinDeliveryTime == 1

VARIABLES
    offers,        \* Offer rows: id -> [user, title, description, image]
    details,       \* OfferDetail rows: id -> [offer, title, revisions, ...]
    orders,        \* Order rows: id -> [customer_user, business_user, ...]
    reviews,       \* Review rows: id -> [business_user, reviewer, rating, description]
    nextOfferId,   \* auto-increment primary keys
    nextDetailId,
    nextOrderId,
    nextReviewId,
    updated_at,    \* the ids of the Offer rows, by Offer.updated_at ascending
    pc,            \* per worker: position of its createReview request
    req,           \* per worker: validated data of its createReview request
    last           \* the last finished request and its response

vars == <<offers, details, orders, reviews, nextOfferId, nextDetailId,
          nextOrderId, nextReviewId, updated_at, pc, req, last>>

offerVars == <<offers, details, nextOfferId, nextDetailId, updated_at>>
orderVars == <<orders, nextOrderId>>
reviewVars == <<reviews, nextReviewId, pc, req>>

Workers == 1..NumWorkers

(***************************************************************************)
(* Request payloads.                                                       *)
(***************************************************************************)
Detail(t, r, d, p, f, ty) ==
    [title |-> t, revisions |-> r, delivery_time_in_days |-> d,
     price |-> p, features |-> f, offer_type |-> ty]

Basic == Detail("Basic", 1, 3, 5000, <<"F1">>, "basic")
Premium == Detail("Premium", 3, 7, 15000, <<"F1", "F2", "F3">>, "premium")

\* details the serializer rejects: price 0, unknown tier
Free == Detail("Free", 1, 3, 0, <<>>, "basic")
Gold == Detail("Gold", 1, 3, 5000, <<>>, "gold")

\* two details that differ in every field
CatalogDetailInputs == {Basic, Premium}

SeqsUpTo(S, n) == UNION { [1..k -> S] : k \in 0..n }

\* A request body is its set of keys and the value of each key it carries
\* (a key it does not carry holds Absent, or the empty list for details).
\* user is a key the serializer does not declare.
OfferPayload(scalars, has_details, details_data) ==
    [keys |-> {k \in {"title", "description", "image", "user"} :
                  scalars[k] # Absent}
              \cup (IF has_details THEN {"details"} ELSE {}),
     title |-> scalars.title,
     description |-> scalars.description,
     image |-> scalars.image,
     user |-> scalars.user,
     details |-> details_data]

\* bodies of POST /offers/
OfferCreatePayloads ==
    { OfferPayload(s, TRUE, dl) :
        s \in [title : {"T1", Absent}, description : {"D1"},
               image : {Absent}, user : {Absent}],
        dl \in {<<Basic>>, <<>>, <<Basic, Free>>} }
    \cup { OfferPayload([title |-> "T1", description |-> "D1",
                         image |-> Absent, user |-> Absent], FALSE, <<>>) }

NoScalars ==
    [title |-> Absent, description |-> Absent, image |-> Absent,
     user |-> Absent]

\* bodies of PATCH /offers/{id}/ : every choice of title, description and
\* image; a user; a null image; a details collection
OfferPatchPayloads ==
    { OfferPayload(s, FALSE, <<>>) :
        s \in [title : {"T2", Absent}, description : {"D2", Absent},
               image : {"img", Absent}, user : {Absent}] }
    \cup { OfferPayload([NoScalars EXCEPT !.user = "b2"], FALSE, <<>>),
           OfferPayload([title |-> "T2", description |-> "D2",
                         image |-> "img", user |-> "b2"], FALSE, <<>>),
           OfferPayload([NoScalars EXCEPT !.image = None], FALSE, <<>>),
           OfferPayload(NoScalars, TRUE, <<Premium>>),
           OfferPayload([NoScalars EXCEPT !.title = "T2"], TRUE, <<Premium>>),
           OfferPayload(NoScalars, TRUE, <<Gold>>),
           OfferPayload(NoScalars, TRUE, <<>>) }

\* the offer bodies used where orders are placed: the offer's details vary
CatalogCreatePayloads ==
    { OfferPayload([title |-> "T1", description |-> "D1",
                    image |-> Absent, user |-> Absent], TRUE, dl) :
        dl \in SeqsUpTo(CatalogDetailInputs, MaxDetails) }

CatalogPatchPayloads ==
    { OfferPayload([title |-> Absent, description |-> Absent,
                    image |-> Absent, user |-> Absent], TRUE, dl) :
        dl \in SeqsUpTo(CatalogDetailInputs, MaxDetails) }

Has(data, key) == key \in data.keys

OfferIds == 1..(MaxOfferId + 1)
DetailIds == 1..(MaxDetailId + 1)
OrderIds == 1..(MaxOrderId + 1)

\* what the caller sees: the operation, its outcome, the id of the object a
\* successful operation created or changed (0 otherwise), and the message of
\* a validation error
Response(op, status, id, detail) ==
    [op |-> op, status |-> status, id |-> id, detail |-> detail]

\* a validation error of the serializer's fields
FieldErrors == "field errors"
\* serializers.py: the messages of the errors the serializers raise themselves
InvalidId == "Invalid ID."
AlreadyReviewed == "You have already reviewed this user."

(***************************************************************************)
(* permissions.py                                                          *)
(***************************************************************************)
IsAuthenticated(user) == user # Anonymous

IsBusinessUser(user) == IsAuthenticated(user) /\ UserType(user) = "business"

\* IsCustomer without the comparison of the type
IsCustomer_any_role(user) == IsAuthenticated(user)

IsCustomer(user) == IsAuthenticated(user) /\ UserType(user) = "customer"

\* unsafe methods on an Offer: the owner is obj.user
IsOwnerOrReadOnly_offer(user, obj) == obj.user = user

\* unsafe methods on a Review: the owner is obj.reviewer
IsOwnerOrReadOnly_review(user, obj) == obj.reviewer = user

IsOrderParticipant(user, obj) ==
    obj.customer_user = user \/ obj.business_user = user

\* IsOrderBusinessOwner granting the customer of the order too
IsOrderBusinessOwner_participant(user, obj) ==
    obj.customer_user = user \/ obj.business_user = user

IsOrderBusinessOwner(user, obj) == obj.business_user = user

\* rest_framework.permissions.IsAdminUser
IsAdminUser(user) == IsAuthenticated(user) /\ is_staff(user)

(***************************************************************************)
(* OfferDetailSerializer: field validation of one detail.                  *)
(***************************************************************************)
\* a serializer whose fields accept every value
OfferDetailSerializer_is_valid_unvalidated(d) == TRUE

OfferDetailSerializer_is_valid(d) ==
    /\ d.price >= MinPrice
    /\ d.delivery_time_in_days >= MinDeliveryTime
    /\ d.offer_type \in OFFER_TYPE_CHOICES

\* OfferWriteSerializer validation: title, description and details are
\* required unless the update is partial; details is a list of details, each
\* valid by itself; the list may be empty
OfferWriteSerializer_is_valid(data, partial) ==
    /\ partial \/ Has(data, "title")
    /\ partial \/ Has(data, "description")
    /\ partial \/ Has(data, "details")
    /\ Has(data, "details") =>
          \A i \in DOMAIN data.details :
              OfferDetailSerializer_is_valid(data.details[i])

\* the rows OfferDetail.objects.create makes for a list of details, with
\* consecutive primary keys from base
CreateDetails(offerId, details_data, base) ==
    [i \in base..(base + Len(details_data) - 1) |->
        [offer |-> offerId,
         title |-> details_data[i - base + 1].title,
         revisions |-> details_data[i - base + 1].revisions,
         delivery_time_in_days |-> details_data[i - base + 1].delivery_time_in_days,
         price |-> details_data[i - base + 1].price,
         features |-> details_data[i - base + 1].features,
         offer_type |-> details_data[i - base + 1].offer_type]]

Remove(f, S) == [i \in DOMAIN f \ S |-> f[i]]

\* a foreign key whose deletion does not cascade
DetailsOf_none(offerId) == {}

DetailsOf(offerId) == {i \in DOMAIN details : details[i].offer = offerId}

\* updated_at is auto_now: saving an Offer makes it the latest one
Touch(order, id) == Append(SelectSeq(order, LAMBDA j : j # id), id)

Untouch(order, id) == SelectSeq(order, LAMBDA j : j # id)

\* the Offer row of OfferWriteSerializer.create, user given by perform_create
OfferWriteSerializer_create(user, validated_data) ==
    [user |-> user,
     title |-> validated_data.title,
     description |-> validated_data.description,
     image |-> IF Has(validated_data, "image") THEN validated_data.image
               ELSE None]

\* OfferWriteSerializer.update reading description with no default
OfferWriteSerializer_update_no_default(instance, validated_data) ==
    [user |-> instance.user,
     title |-> IF Has(validated_data, "title") THEN validated_data.title
               ELSE instance.title,
     description |-> IF Has(validated_data, "description")
                     THEN validated_data.description
                     ELSE None,
     image |-> IF Has(validated_data, "image") THEN validated_data.image
               ELSE instance.image]

\* OfferWriteSerializer with user among its fields
OfferWriteSerializer_update_user_writable(instance, validated_data) ==
    [user |-> IF Has(validated_data, "user") THEN validated_data.user
              ELSE instance.user,
     title |-> IF Has(validated_data, "title") THEN validated_data.title
               ELSE instance.title,
     description |-> IF Has(validated_data, "description")
                     THEN validated_data.description
                     ELSE instance.description,
     image |-> IF Has(validated_data, "image") THEN validated_data.image
               ELSE instance.image]

\* the Offer row after OfferWriteSerializer.update
OfferWriteSerializer_update(instance, validated_data) ==
    [user |-> instance.user,
     title |-> IF Has(validated_data, "title") THEN validated_data.title
               ELSE instance.title,
     description |-> IF Has(validated_data, "description")
                     THEN validated_data.description
                     ELSE instance.description,
     image |-> IF Has(validated_data, "image") THEN validated_data.image
               ELSE instance.image]

\* the OfferDetail table after OfferWriteSerializer.update: with a details
\* collection, every detail of the offer is deleted and one row is created
\* per incoming detail
OfferWriteSerializer_update_details(offerId, validated_data) ==
    IF ~Has(validated_data, "details") THEN details
    ELSE Remove(details, DetailsOf(offerId))
            @@ CreateDetails(offerId, validated_data.details, nextDetailId)

(***************************************************************************)
(* OfferViewSet                                                            *)
(***************************************************************************)
\* POST /offers/
createOffer(caller, data) ==
    /\ UNCHANGED <<orderVars, reviewVars>>
    /\ IF ~IsAuthenticated(caller)
       THEN /\ last' = Response("createOffer", "not_authenticated", 0, "")
            /\ UNCHANGED offerVars
       ELSE IF ~IsBusinessUser(caller)
       THEN /\ last' = Response("createOffer", "forbidden", 0, "")
            /\ UNCHANGED offerVars
       ELSE IF ~OfferWriteSerializer_is_valid(data, FALSE)
       THEN /\ last' = Response("createOffer", "validation_error", 0, FieldErrors)
            /\ UNCHANGED offerVars
       ELSE /\ nextOfferId <= MaxOfferId
            /\ nextDetailId + Len(data.details) - 1 <= MaxDetailId
            /\ offers' = offers @@
                  (nextOfferId :> OfferWriteSerializer_create(caller, data))
            /\ details' = details @@
                  CreateDetails(nextOfferId, data.details, nextDetailId)
            /\ nextOfferId' = nextOfferId + 1
            /\ nextDetailId' = nextDetailId + Len(data.details)
            /\ updated_at' = Touch(updated_at, nextOfferId)
            /\ last' = Response("createOffer", "created", nextOfferId, "")

\* PATCH /offers/{id}/
updateOffer(caller, id, data) ==
    /\ UNCHANGED <<orderVars, reviewVars>>
    /\ IF ~IsAuthenticated(caller)
       THEN /\ last' = Response("updateOffer", "not_authenticated", 0, "")
            /\ UNCHANGED offerVars
       ELSE IF id \notin DOMAIN offers
       THEN /\ last' = Response("updateOffer", "not_found", 0, "")
            /\ UNCHANGED offerVars
       ELSE IF ~IsOwnerOrReadOnly_offer(caller, offers[id])
       THEN /\ last' = Response("updateOffer", "forbidden", 0, "")
            /\ UNCHANGED offerVars
       ELSE IF ~OfferWriteSerializer_is_valid(data, TRUE)
       THEN /\ last' = Response("updateOffer", "validation_error", 0, FieldErrors)
            /\ UNCHANGED offerVars
       ELSE /\ nextDetailId + Len(data.details) - 1 <= MaxDetailId
            /\ offers' = [offers EXCEPT
                  ![id] = OfferWriteSerializer_update(offers[id], data)]
            /\ details' = OfferWriteSerializer_update_details(id, data)
            /\ nextDetailId' = nextDetailId + Len(data.details)
            /\ updated_at' = Touch(updated_at, id)
            /\ UNCHANGED nextOfferId
            /\ last' = Response("updateOffer", "ok", id, "")

\* DELETE /offers/{id}/ ; OfferDetail.offer is on_delete=CASCADE
deleteOffer(caller, id) ==
    /\ UNCHANGED <<orderVars, reviewVars>>
    /\ IF ~IsAuthenticated(caller)
       THEN /\ last' = Response("deleteOffer", "not_authenticated", 0, "")
            /\ UNCHANGED offerVars
       ELSE IF id \notin DOMAIN offers
       THEN /\ last' = Response("deleteOffer", "not_found", 0, "")
            /\ UNCHANGED offerVars
       ELSE IF ~IsOwnerOrReadOnly_offer(caller, offers[id])
       THEN /\ last' = Response("deleteOffer", "forbidden", 0, "")
            /\ UNCHANGED offerVars
       ELSE /\ offers' = Remove(offers, {id})
            /\ details' = Remove(details, DetailsOf(id))
            /\ updated_at' = Untouch(updated_at, id)
            /\ UNCHANGED <<nextOfferId, nextDetailId>>
            /\ last' = Response("deleteOffer", "no_content", id, "")

\* the first k elements of a list
Prefix(seq, k) == SubSeq(seq, 1, k)

\* POST /offers/ when the storage raises on the insert of the k-th detail:
\* create runs no transaction, so the Offer row and the details before the
\* k-th are already stored when the exception ends the request
createOffer_fails(caller, data, k) ==
    /\ IsBusinessUser(caller)
    /\ OfferWriteSerializer_is_valid(data, FALSE)
    /\ k \in 1..Len(data.details)
    /\ nextOfferId <= MaxOfferId
    /\ nextDetailId + (k - 1) - 1 <= MaxDetailId
    /\ UNCHANGED <<orderVars, reviewVars>>
    /\ offers' = offers @@
          (nextOfferId :> OfferWriteSerializer_create(caller, data))
    /\ details' = details @@
          CreateDetails(nextOfferId, Prefix(data.details, k - 1), nextDetailId)
    /\ nextOfferId' = nextOfferId + 1
    /\ nextDetailId' = nextDetailId + (k - 1)
    /\ updated_at' = Touch(updated_at, nextOfferId)
    /\ last' = Response("createOffer", "server_error", 0, "")

\* PATCH /offers/{id}/ when the storage raises on the insert of the k-th
\* detail: the Offer row is saved, the old details are deleted and the
\* details before the k-th are stored
updateOffer_fails(caller, id, data, k) ==
    /\ IsAuthenticated(caller)
    /\ id \in DOMAIN offers
    /\ IsOwnerOrReadOnly_offer(caller, offers[id])
    /\ OfferWriteSerializer_is_valid(data, TRUE)
    /\ Has(data, "details")
    /\ k \in 1..Len(data.details)
    /\ nextDetailId + (k - 1) - 1 <= MaxDetailId
    /\ UNCHANGED <<orderVars, reviewVars, nextOfferId>>
    /\ offers' = [offers EXCEPT
          ![id] = OfferWriteSerializer_update(offers[id], data)]
    /\ details' = Remove(details, DetailsOf(id))
          @@ CreateDetails(id, Prefix(data.details, k - 1), nextDetailId)
    /\ nextDetailId' = nextDetailId + (k - 1)
    /\ updated_at' = Touch(updated_at, id)
    /\ last' = Response("updateOffer", "server_error", 0, "")

(***************************************************************************)
(* Reading offers: GET /offers/ and GET /offers/{id}/.  In the listing the  *)
(* text fields are sequences of characters.                                *)
(***************************************************************************)
\* the SQL NULL of an aggregate over no rows; in an ORDER BY of the
\* database (SQLite) it sorts before every value
NULL == -1

\* OfferPagination
page_size == 10
max_page_size == 100

SetMin(S) == CHOOSE x \in S : \A y \in S : x <= y

\* OfferViewSet.get_queryset: the row of an Offer with its two annotations,
\* Min over the joined details, NULL when no detail joins
OfferViewSet_get_queryset(id) ==
    [id |-> id,
     min_price |->
        IF DetailsOf(id) = {} THEN NULL
        ELSE SetMin({details[d].price : d \in DetailsOf(id)}),
     min_delivery_time |->
        IF DetailsOf(id) = {} THEN NULL
        ELSE SetMin({details[d].delivery_time_in_days : d \in DetailsOf(id)})]

\* BaseOfferSerializer.get_min_price / get_min_delivery_time on a row that
\* has the annotation
get_min_price(obj) == IF obj.min_price # NULL THEN obj.min_price ELSE 0

get_min_delivery_time(obj) ==
    IF obj.min_delivery_time # NULL THEN obj.min_delivery_time ELSE 0

\* what OfferListSerializer reports of an Offer
OfferListSerializer_to_representation(id) ==
    [keys |-> {"id", "user", "title", "image", "description", "details",
               "min_price", "min_delivery_time"},
     id |-> id,
     user |-> offers[id].user,
     title |-> offers[id].title,
     image |-> offers[id].image,
     description |-> offers[id].description,
     details |-> DetailsOf(id),
     min_price |-> get_min_price(OfferViewSet_get_queryset(id)),
     min_delivery_time |->
        get_min_delivery_time(OfferViewSet_get_queryset(id))]

\* what the serializer of every other action reports (get_serializer_class
\* returns one class for retrieve, create and update): the fields of
\* OfferWriteSerializer, the details in full
OfferWriteSerializer_to_representation(id) ==
    [keys |-> {"id", "title", "image", "description", "details"},
     id |-> id,
     title |-> offers[id].title,
     image |-> offers[id].image,
     description |-> offers[id].description,
     details |-> [d \in DetailsOf(id) |-> details[d]]]

Lower(ch) == IF ch = "A" THEN "a" ELSE IF ch = "B" THEN "b" ELSE ch

\* the lookup icontains
icontains(text, value) ==
    \E i \in 0..(Len(text) - Len(value)) :
        \A j \in 1..Len(value) : Lower(text[i + j]) = Lower(value[j])

\* OfferFilter.filter_search; the SearchFilter backend reads the same query
\* parameter and, for a value of one term, applies the same condition
filter_search(id, value) ==
    \/ icontains(offers[id].title, value)
    \/ icontains(offers[id].description, value)

\* OfferFilter comparing min_price with the price of the joined details
\* instead of with the annotation: an offer passes when any detail does
OfferFilter_any_detail(q) ==
    {id \in DOMAIN offers :
        /\ Has(q, "creator_id") => offers[id].user = q.creator_id
        /\ Has(q, "min_price") =>
              \E d \in DetailsOf(id) : details[d].price >= q.min_price
        /\ Has(q, "max_delivery_time") =>
              /\ OfferViewSet_get_queryset(id).min_delivery_time # NULL
              /\ OfferViewSet_get_queryset(id).min_delivery_time
                    <= q.max_delivery_time
        /\ Has(q, "search") => filter_search(id, q.search)}

\* the ids OfferFilter keeps; a comparison with NULL is not true
OfferFilter(q) ==
    {id \in DOMAIN offers :
        /\ Has(q, "creator_id") => offers[id].user = q.creator_id
        /\ Has(q, "min_price") =>
              /\ OfferViewSet_get_queryset(id).min_price # NULL
              /\ OfferViewSet_get_queryset(id).min_price >= q.min_price
        /\ Has(q, "max_delivery_time") =>
              /\ OfferViewSet_get_queryset(id).min_delivery_time # NULL
              /\ OfferViewSet_get_queryset(id).min_delivery_time
                    <= q.max_delivery_time
        /\ Has(q, "search") => filter_search(id, q.search)}

\* OrderingFilter: a term outside ordering_fields is dropped, and without a
\* term the order of get_queryset stands
ordering_fields == {"min_price", "updated_at"}

\* OrderingFilter with no ordering_fields that the request can name
OrderingFilter_get_ordering_ignored(q) == "-updated_at"

OrderingFilter_get_ordering(q) ==
    IF Has(q, "ordering")
       /\ \E f \in ordering_fields : q.ordering \in {f, "-" \o f}
    THEN q.ordering
    ELSE "-updated_at"

Position(seq, x) == CHOOSE i \in 1..Len(seq) : seq[i] = x

\* the value ORDER BY compares
SortKey(id, field) ==
    IF field = "min_price" THEN OfferViewSet_get_queryset(id).min_price
    ELSE Position(updated_at, id)

\* the orders in which the database can return the rows S: sorted by the
\* field, rows of equal value in any order
OrderBy(S, ordering) ==
    LET desc == ordering \in {"-min_price", "-updated_at"}
        field == IF ordering \in {"min_price", "-min_price"}
                 THEN "min_price" ELSE "updated_at"
    IN {seq \in [1..Cardinality(S) -> S] :
          /\ \A i, j \in 1..Cardinality(S) : seq[i] = seq[j] => i = j
          /\ \A i, j \in 1..Cardinality(S) :
                i < j => IF desc
                         THEN SortKey(seq[i], field) >= SortKey(seq[j], field)
                         ELSE SortKey(seq[i], field) <= SortKey(seq[j], field)}

\* PageNumberPagination.get_page_size
get_page_size(q) ==
    IF Has(q, "page_size") /\ q.page_size >= 1
    THEN (IF q.page_size > max_page_size THEN max_page_size ELSE q.page_size)
    ELSE page_size

\* Paginator.num_pages; the first page exists also when there are no rows
num_pages(count, size) ==
    IF count = 0 THEN 1 ELSE (count + size - 1) \div size

PageNumber(q) == IF Has(q, "page") THEN q.page ELSE 1

\* the rows of the page
Page(seq, number, size) ==
    SubSeq(seq, (number - 1) * size + 1,
           IF number * size > Len(seq) THEN Len(seq) ELSE number * size)

\* GET /offers/ : AllowAny.  The request's query is kept with its response.
listOffers(caller, q) ==
    /\ UNCHANGED <<offerVars, orderVars, reviewVars>>
    /\ \E seq \in OrderBy(OfferFilter(q), OrderingFilter_get_ordering(q)) :
          IF PageNumber(q) \notin 1..num_pages(Len(seq), get_page_size(q))
          THEN last' = Response("listOffers", "not_found", 0,
                                [query |-> q, count |-> Len(seq),
                                 results |-> <<>>])
          ELSE last' = Response("listOffers", "ok", 0,
                  [query |-> q,
                   count |-> Len(seq),
                   results |->
                      [i \in 1..Len(Page(seq, PageNumber(q), get_page_size(q)))
                         |-> OfferListSerializer_to_representation(
                                Page(seq, PageNumber(q), get_page_size(q))[i])]])

\* GET /offers/{id}/ : IsAuthenticated
getOffer(caller, id) ==
    /\ UNCHANGED <<offerVars, orderVars, reviewVars>>
    /\ IF ~IsAuthenticated(caller)
       THEN last' = Response("getOffer", "not_authenticated", 0, "")
       ELSE IF id \notin DOMAIN offers
       THEN last' = Response("getOffer", "not_found", 0, "")
       ELSE last' = Response("getOffer", "ok", id,
                             OfferWriteSerializer_to_representation(id))

(***************************************************************************)
(* OrderSerializer and OrderViewSet                                        *)
(***************************************************************************)
\* bodies of POST /orders/ : offer_detail_id and, optionally, status
OrderCreatePayloads ==
    [keys : {{"offer_detail_id"}},
     offer_detail_id : DetailIds,
     status : {Absent}, title : {Absent}]
    \cup [keys : {{"offer_detail_id", "status"}},
          offer_detail_id : DetailIds,
          status : {"completed", "shipped"}, title : {Absent}]
    \cup [keys : {{}}, offer_detail_id : {0}, status : {Absent},
          title : {Absent}]

\* bodies of PATCH /orders/{id}/ : status and, optionally, the read-only title
OrderPatchPayloads ==
    [keys : {{"status"}}, offer_detail_id : {0},
     status : {"completed", "shipped"}, title : {Absent}]
    \cup [keys : {{"status", "title"}}, offer_detail_id : {0},
          status : {"completed"}, title : {"Hacked"}]
    \cup [keys : {{"title"}}, offer_detail_id : {0},
          status : {Absent}, title : {"Hacked"}]

\* status as a plain CharField, without the choices
OrderSerializer_is_valid_any_status(data, partial) ==
    partial \/ Has(data, "offer_detail_id")

\* field validation: offer_detail_id is required on create, status is a
\* choice field; the read-only fields of the body are dropped
OrderSerializer_is_valid(data, partial) ==
    /\ partial \/ Has(data, "offer_detail_id")
    /\ Has(data, "status") => data.status \in STATUS_CHOICES

\* OrderSerializer.create taking the title from the parent offer
OrderSerializer_create_offer_title(user, offer_detail) ==
    [customer_user |-> user,
     business_user |-> offers[offer_detail.offer].user,
     title |-> offers[offer_detail.offer].title,
     revisions |-> offer_detail.revisions,
     delivery_time_in_days |-> offer_detail.delivery_time_in_days,
     price |-> offer_detail.price,
     features |-> offer_detail.features,
     offer_type |-> offer_detail.offer_type,
     status |-> "in_progress"]

\* the Order row OrderSerializer.create makes from the detail it looked up
OrderSerializer_create(user, offer_detail) ==
    [customer_user |-> user,
     business_user |-> offers[offer_detail.offer].user,
     title |-> offer_detail.title,
     revisions |-> offer_detail.revisions,
     delivery_time_in_days |-> offer_detail.delivery_time_in_days,
     price |-> offer_detail.price,
     features |-> offer_detail.features,
     offer_type |-> offer_detail.offer_type,
     status |-> "in_progress"]

\* OrderSerializer.create without the except clause: DoesNotExist propagates
OrderSerializer_create_outcome_uncaught(validated_data) ==
    IF validated_data.offer_detail_id \notin DOMAIN details
    THEN "server_error"
    ELSE IF Has(validated_data, "status") THEN "server_error"
    ELSE "created"

\* how OrderSerializer.create ends: the lookup of the detail fails with a
\* validation error; a status in the validated data is passed to
\* Order.objects.create next to status='in_progress' and raises TypeError
OrderSerializer_create_outcome(validated_data) ==
    IF validated_data.offer_detail_id \notin DOMAIN details
    THEN "validation_error"
    ELSE IF Has(validated_data, "status") THEN "server_error"
    ELSE "created"

\* OrderSerializer with title left out of read_only_fields
OrderSerializer_update_title_writable(instance, validated_data) ==
    [instance EXCEPT
        !.status = IF Has(validated_data, "status") THEN validated_data.status
                   ELSE instance.status,
        !.title = IF Has(validated_data, "title") THEN validated_data.title
                  ELSE instance.title]

\* the Order row after ModelSerializer.update: only writable fields are set
OrderSerializer_update(instance, validated_data) ==
    [instance EXCEPT
        !.status = IF Has(validated_data, "status") THEN validated_data.status
                   ELSE instance.status]

\* get_queryset without the filter on the participants
OrderViewSet_get_queryset_all(user) ==
    IF IsAuthenticated(user) THEN DOMAIN orders ELSE {}

\* the orders the caller can address: all of them for staff, the caller's
\* own for another authenticated user
OrderViewSet_get_queryset(user) ==
    IF is_staff(user)
    THEN DOMAIN orders
    ELSE IF IsAuthenticated(user)
    THEN {i \in DOMAIN orders : orders[i].customer_user = user
                                  \/ orders[i].business_user = user}
    ELSE {}

\* POST /orders/
createOrder(caller, data) ==
    /\ UNCHANGED <<offerVars, reviewVars>>
    /\ IF ~IsAuthenticated(caller)
       THEN /\ last' = Response("createOrder", "not_authenticated", 0, "")
            /\ UNCHANGED orderVars
       ELSE IF ~IsCustomer(caller)
       THEN /\ last' = Response("createOrder", "forbidden", 0, "")
            /\ UNCHANGED orderVars
       ELSE IF ~OrderSerializer_is_valid(data, FALSE)
       THEN /\ last' = Response("createOrder", "validation_error", 0, FieldErrors)
            /\ UNCHANGED orderVars
       ELSE IF OrderSerializer_create_outcome(data) = "validation_error"
       THEN /\ last' = Response("createOrder", "validation_error", 0, InvalidId)
            /\ UNCHANGED orderVars
       ELSE IF OrderSerializer_create_outcome(data) = "server_error"
       THEN /\ last' = Response("createOrder", "server_error", 0, "")
            /\ UNCHANGED orderVars
       ELSE /\ nextOrderId <= MaxOrderId
            /\ orders' = orders @@
                  (nextOrderId :> OrderSerializer_create(caller,
                                      details[data.offer_detail_id]))
            /\ nextOrderId' = nextOrderId + 1
            /\ last' = Response("createOrder", "created", nextOrderId, "")

\* PATCH /orders/{id}/
updateOrderStatus(caller, id, data) ==
    /\ UNCHANGED <<offerVars, reviewVars, nextOrderId>>
    /\ IF ~IsAuthenticated(caller)
       THEN /\ last' = Response("updateOrderStatus", "not_authenticated", 0, "")
            /\ UNCHANGED orders
       ELSE IF id \notin OrderViewSet_get_queryset(caller)
       THEN /\ last' = Response("updateOrderStatus", "not_found", 0, "")
            /\ UNCHANGED orders
       ELSE IF ~IsOrderBusinessOwner(caller, orders[id])
       THEN /\ last' = Response("updateOrderStatus", "forbidden", 0, "")
            /\ UNCHANGED orders
       ELSE IF ~OrderSerializer_is_valid(data, TRUE)
       THEN /\ last' = Response("updateOrderStatus", "validation_error", 0, FieldErrors)
            /\ UNCHANGED orders
       ELSE /\ orders' = [orders EXCEPT
                  ![id] = OrderSerializer_update(orders[id], data)]
            /\ last' = Response("updateOrderStatus", "ok", id, "")

\* GET /orders/ : the ids of the orders of the caller's queryset
listOrders(caller) ==
    /\ UNCHANGED <<offerVars, orderVars, reviewVars>>
    /\ IF ~IsAuthenticated(caller)
       THEN last' = Response("listOrders", "not_authenticated", 0,
                             [results |-> {}])
       ELSE last' = Response("listOrders", "ok", 0,
                             [results |-> OrderViewSet_get_queryset(caller)])

\* GET /orders/{id}/ : the order is looked up in the caller's queryset, then
\* IsOrderParticipant is asked about it
getOrder(caller, id) ==
    /\ UNCHANGED <<offerVars, orderVars, reviewVars>>
    /\ IF ~IsAuthenticated(caller)
       THEN last' = Response("getOrder", "not_authenticated", 0, "")
       ELSE IF id \notin OrderViewSet_get_queryset(caller)
       THEN last' = Response("getOrder", "not_found", 0, "")
       ELSE IF ~IsOrderParticipant(caller, orders[id])
       THEN last' = Response("getOrder", "forbidden", 0, "")
       ELSE last' = Response("getOrder", "ok", id, "")

\* DELETE /orders/{id}/ : IsAdminUser is checked before the order is looked up
deleteOrder(caller, id) ==
    /\ UNCHANGED <<offerVars, reviewVars, nextOrderId>>
    /\ IF ~IsAuthenticated(caller)
       THEN /\ last' = Response("deleteOrder", "not_authenticated", 0, "")
            /\ UNCHANGED orders
       ELSE IF ~IsAdminUser(caller)
       THEN /\ last' = Response("deleteOrder", "forbidden", 0, "")
            /\ UNCHANGED orders
       ELSE IF id \notin OrderViewSet_get_queryset(caller)
       THEN /\ last' = Response("deleteOrder", "not_found", 0, "")
            /\ UNCHANGED orders
       ELSE /\ orders' = Remove(orders, {id})
            /\ last' = Response("deleteOrder", "no_content", id, "")

(***************************************************************************)
(* ReviewSerializer and ReviewViewSet.  A POST /reviews/ request runs on a *)
(* worker; its pre-check and its insert are two database accesses, and     *)
(* another worker's request can run between them.                          *)
(***************************************************************************)
\* a body with the keys it carries; a key it does not carry holds Absent
\* (the rating 0)
ReviewPayload(keys, b, r, d) ==
    [keys |-> keys,
     business_user |-> IF "business_user" \in keys THEN b ELSE Absent,
     rating |-> IF "rating" \in keys THEN r ELSE 0,
     description |-> IF "description" \in keys THEN d ELSE Absent]

ReviewKeys == {"business_user", "rating", "description"}

\* bodies of POST /reviews/
ReviewCreatePayloads ==
    { ReviewPayload(ReviewKeys, b, r, "good") :
        b \in BusinessUsers, r \in {5, 6} }
        \cup { ReviewPayload({"business_user", "description"}, "b1", 0, "good"),
               ReviewPayload(ReviewKeys, "nobody", 5, "good") }

\* bodies of PATCH /reviews/{id}/
ReviewPatchPayloads ==
    { ReviewPayload(k, "b2", 1, "edited") : k \in SUBSET ReviewKeys }

ReviewIds == 1..(MaxReviewId + 1)

NoRequest ==
    [business_user |-> None, reviewer |-> None, rating |-> 0,
     description |-> None]

\* field validation: business_user is the key of a user, rating is a
\* non-negative integer; all three fields are required unless partial
ReviewSerializer_is_valid(data, partial) ==
    /\ partial \/ data.keys = ReviewKeys
    /\ Has(data, "business_user") => data.business_user \in Users
    /\ Has(data, "rating") => data.rating >= 0

\* ReviewSerializer.create without its pre-check
ReviewExists_unchecked(business_user, reviewer) == FALSE

\* the pre-check of ReviewSerializer.create
ReviewExists(business_user, reviewer) ==
    \E i \in DOMAIN reviews :
        /\ reviews[i].business_user = business_user
        /\ reviews[i].reviewer = reviewer

\* Review without unique_together
UniqueTogether_unconstrained(business_user, reviewer) == TRUE

\* Review.Meta.unique_together: whether the table accepts a row of this pair
UniqueTogether(business_user, reviewer) ==
    ~\E i \in DOMAIN reviews :
        /\ reviews[i].business_user = business_user
        /\ reviews[i].reviewer = reviewer

\* the Review row after ReviewSerializer.update
ReviewSerializer_update(instance, validated_data) ==
    [business_user |-> instance.business_user,
     reviewer |-> instance.reviewer,
     rating |-> IF Has(validated_data, "rating") THEN validated_data.rating
                ELSE instance.rating,
     description |-> IF Has(validated_data, "description")
                     THEN validated_data.description
                     ELSE instance.description]

\* POST /reviews/ up to and including the pre-check of create
createReview(w, caller, data) ==
    /\ pc[w] = "idle"
    /\ UNCHANGED <<offerVars, orderVars, reviews, nextReviewId>>
    /\ IF ~IsAuthenticated(caller)
       THEN /\ last' = Response("createReview", "not_authenticated", 0, "")
            /\ UNCHANGED <<pc, req>>
       ELSE IF ~IsCustomer(caller)
       THEN /\ last' = Response("createReview", "forbidden", 0, "")
            /\ UNCHANGED <<pc, req>>
       ELSE IF ~ReviewSerializer_is_valid(data, FALSE)
       THEN /\ last' = Response("createReview", "validation_error", 0, FieldErrors)
            /\ UNCHANGED <<pc, req>>
       ELSE IF ReviewExists(data.business_user, caller)
       THEN /\ last' = Response("createReview", "validation_error", 0,
                                AlreadyReviewed)
            /\ UNCHANGED <<pc, req>>
       ELSE /\ pc' = [pc EXCEPT ![w] = "checked"]
            /\ req' = [req EXCEPT ![w] =
                  [business_user |-> data.business_user,
                   reviewer |-> caller,
                   rating |-> data.rating,
                   description |-> data.description]]
            /\ UNCHANGED last

\* the insert of POST /reviews/ : super().create(validated_data); the table
\* rejects a second row of the pair with an IntegrityError, which nothing
\* catches
createReview_insert(w) ==
    /\ pc[w] = "checked"
    /\ UNCHANGED <<offerVars, orderVars>>
    /\ pc' = [pc EXCEPT ![w] = "idle"]
    /\ req' = [req EXCEPT ![w] = NoRequest]
    /\ IF ~UniqueTogether(req[w].business_user, req[w].reviewer)
       THEN /\ last' = Response("createReview", "server_error", 0, "")
            /\ UNCHANGED <<reviews, nextReviewId>>
       ELSE /\ nextReviewId <= MaxReviewId
            /\ reviews' = reviews @@ (nextReviewId :> req[w])
            /\ nextReviewId' = nextReviewId + 1
            /\ last' = Response("createReview", "created", nextReviewId, "")

\* PATCH /reviews/{id}/
updateReview(caller, id, data) ==
    /\ UNCHANGED <<offerVars, orderVars, nextReviewId, pc, req>>
    /\ IF ~IsAuthenticated(caller)
       THEN /\ last' = Response("updateReview", "not_authenticated", 0, "")
            /\ UNCHANGED reviews
       ELSE IF id \notin DOMAIN reviews
       THEN /\ last' = Response("updateReview", "not_found", 0, "")
            /\ UNCHANGED reviews
       ELSE IF ~IsOwnerOrReadOnly_review(caller, reviews[id])
       THEN /\ last' = Response("updateReview", "forbidden", 0, "")
            /\ UNCHANGED reviews
       ELSE IF ~ReviewSerializer_is_valid(data, TRUE)
       THEN /\ last' = Response("updateReview", "validation_error", 0, FieldErrors)
            /\ UNCHANGED reviews
       ELSE /\ reviews' = [reviews EXCEPT
                  ![id] = ReviewSerializer_update(reviews[id], data)]
            /\ last' = Response("updateReview", "ok", id, "")

\* DELETE /reviews/{id}/
deleteReview(caller, id) ==
    /\ UNCHANGED <<offerVars, orderVars, nextReviewId, pc, req>>
    /\ IF ~IsAuthenticated(caller)
       THEN /\ last' = Response("deleteReview", "not_authenticated", 0, "")
            /\ UNCHANGED reviews
       ELSE IF id \notin DOMAIN reviews
       THEN /\ last' = Response("deleteReview", "not_found", 0, "")
            /\ UNCHANGED reviews
       ELSE IF ~IsOwnerOrReadOnly_review(caller, reviews[id])
       THEN /\ last' = Response("deleteReview", "forbidden", 0, "")
            /\ UNCHANGED reviews
       ELSE /\ reviews' = Remove(reviews, {id})
            /\ last' = Response("deleteReview", "no_content", id, "")

(***************************************************************************)
(* PATCH /offers/{id}/ statement by statement.  OfferWriteSerializer.update *)
(* runs in no transaction and takes no lock: the save of the Offer, the    *)
(* delete of its details and each insert of a detail are database accesses *)
(* of their own, and another worker's request can run between them.        *)
(***************************************************************************)
\* the request up to and including instance.save()
updateOffer_save(w, caller, id, data) ==
    /\ pc[w] = "idle"
    /\ UNCHANGED <<orderVars, reviews, nextReviewId, details, nextOfferId,
                   nextDetailId>>
    /\ IF ~IsAuthenticated(caller)
       THEN /\ last' = Response("updateOffer", "not_authenticated", 0, "")
            /\ UNCHANGED <<offers, updated_at, pc, req>>
       ELSE IF id \notin DOMAIN offers
       THEN /\ last' = Response("updateOffer", "not_found", 0, "")
            /\ UNCHANGED <<offers, updated_at, pc, req>>
       ELSE IF ~IsOwnerOrReadOnly_offer(caller, offers[id])
       THEN /\ last' = Response("updateOffer", "forbidden", 0, "")
            /\ UNCHANGED <<offers, updated_at, pc, req>>
       ELSE IF ~OfferWriteSerializer_is_valid(data, TRUE)
       THEN /\ last' = Response("updateOffer", "validation_error", 0, FieldErrors)
            /\ UNCHANGED <<offers, updated_at, pc, req>>
       ELSE /\ offers' = [offers EXCEPT
                  ![id] = OfferWriteSerializer_update(offers[id], data)]
            /\ updated_at' = Touch(updated_at, id)
            /\ IF Has(data, "details")
               THEN /\ pc' = [pc EXCEPT ![w] = "saved"]
                    /\ req' = [req EXCEPT ![w] =
                          [offer |-> id, details |-> data.details]]
                    /\ UNCHANGED last
               ELSE /\ last' = Response("updateOffer", "ok", id, "")
                    /\ UNCHANGED <<pc, req>>

\* instance.details.all().delete()
updateOffer_delete(w) ==
    /\ pc[w] = "saved"
    /\ UNCHANGED <<orderVars, reviews, nextReviewId, offers, nextOfferId,
                   nextDetailId, updated_at>>
    /\ details' = Remove(details, DetailsOf(req[w].offer))
    /\ IF req[w].details = <<>>
       THEN /\ pc' = [pc EXCEPT ![w] = "idle"]
            /\ req' = [req EXCEPT ![w] = NoRequest]
            /\ last' = Response("updateOffer", "ok", req[w].offer, "")
       ELSE /\ pc' = [pc EXCEPT ![w] = "deleted"]
            /\ UNCHANGED <<req, last>>

\* one OfferDetail.objects.create(offer=instance, **detail_data) of the loop;
\* the request answers after the last one.  The insert of a detail whose
\* offer is gone violates the foreign key, and nothing catches the error
updateOffer_insert(w) ==
    /\ pc[w] = "deleted"
    /\ UNCHANGED <<orderVars, reviews, nextReviewId, offers, nextOfferId,
                   updated_at>>
    /\ IF req[w].offer \notin DOMAIN offers
       THEN /\ pc' = [pc EXCEPT ![w] = "idle"]
            /\ req' = [req EXCEPT ![w] = NoRequest]
            /\ last' = Response("updateOffer", "server_error", 0, "")
            /\ UNCHANGED <<details, nextDetailId>>
       ELSE /\ nextDetailId <= MaxPatchedDetailId
            /\ details' = details @@
                  CreateDetails(req[w].offer, <<Head(req[w].details)>>,
                                nextDetailId)
            /\ nextDetailId' = nextDetailId + 1
            /\ IF Len(req[w].details) = 1
               THEN /\ pc' = [pc EXCEPT ![w] = "idle"]
                    /\ req' = [req EXCEPT ![w] = NoRequest]
                    /\ last' = Response("updateOffer", "ok", req[w].offer, "")
               ELSE /\ req' = [req EXCEPT ![w].details = Tail(req[w].details)]
                    /\ UNCHANGED <<pc, last>>

Init ==
    /\ offers = <<>>
    /\ details = <<>>
    /\ orders = <<>>
    /\ reviews = <<>>
    /\ nextOfferId = 1
    /\ nextDetailId = 1
    /\ nextOrderId = 1
    /\ nextReviewId = 1
    /\ updated_at = <<>>
    /\ pc = [w \in Workers |-> "idle"]
    /\ req = [w \in Workers |-> NoRequest]
    /\ last = Response("none", "none", 0, "")

\* Offers created, patched and deleted by the authenticated users
NextOffer ==
    \/ \E c \in Users, d \in OfferCreatePayloads : createOffer(c, d)
    \/ \E c \in Users, i \in 1..MaxOfferId, d \in OfferPatchPayloads :
          updateOffer(c, i, d)
    \/ \E c \in Users, i \in 1..MaxOfferId : deleteOffer(c, i)

SpecOffer == Init /\ [][NextOffer]_vars

NextReview ==
    \/ \E w \in Workers, c \in Callers, d \in ReviewCreatePayloads :
          createReview(w, c, d)
    \/ \E w \in Workers : createReview_insert(w)
    \/ \E c \in Callers, i \in ReviewIds, d \in ReviewPatchPayloads :
          updateReview(c, i, d)
    \/ \E c \in Callers, i \in ReviewIds : deleteReview(c, i)

SpecReview == Init /\ [][NextReview]_vars

\* bodies whose details are valid, or hold one the serializer rejects
AtomicCreatePayloads ==
    CatalogCreatePayloads
    \cup { OfferPayload([title |-> "T1", description |-> "D1",
                         image |-> Absent, user |-> Absent], TRUE,
                        <<Basic, Free>>) }

AtomicPatchPayloads ==
    CatalogPatchPayloads
    \cup { OfferPayload(NoScalars, TRUE, <<Premium, Gold>>),
           OfferPayload([NoScalars EXCEPT !.title = "T2"], TRUE,
                        <<Premium, Basic>>) }

\* Offers written while the storage can fail on any insert of a detail
NextAtomic ==
    \/ \E c \in Users, d \in AtomicCreatePayloads : createOffer(c, d)
    \/ \E c \in Users, i \in 1..MaxOfferId, d \in AtomicPatchPayloads :
          updateOffer(c, i, d)
    \/ \E c \in Users, i \in 1..MaxOfferId : deleteOffer(c, i)
    \/ \E c \in Users, d \in AtomicCreatePayloads, k \in 1..MaxDetails :
          createOffer_fails(c, d, k)
    \/ \E c \in Users, i \in 1..MaxOfferId, d \in AtomicPatchPayloads,
          k \in 1..MaxDetails : updateOffer_fails(c, i, d, k)

SpecAtomic == Init /\ [][NextAtomic]_vars

\* a detail that is the dearest and the fastest
Express == Detail("Express", 1, 1, 20000, <<"F1">>, "standard")

\* bodies of POST /offers/ and PATCH /offers/{id}/ for the listing: texts as
\* sequences of characters, details of different prices and delivery times
ListingPayload(keys, title, description, details_data) ==
    [keys |-> keys, title |-> title, description |-> description,
     image |-> Absent, user |-> Absent, details |-> details_data]

ListingCreatePayloads ==
    { ListingPayload({"title", "description", "details"},
                     <<"A", "b">>, <<"b", "a">>, dl) :
        dl \in {<<Basic>>, <<Basic, Express>>, <<>>} }
    \cup
    { ListingPayload({"title", "description", "details"},
                     <<"b", "b">>, <<"b">>, <<Premium>>) }

ListingPatchPayloads ==
    { ListingPayload({"details"}, <<>>, <<>>, dl) :
        dl \in {<<Express, Basic>>, <<>>} }
    \cup { ListingPayload({"title"}, <<"B", "a">>, <<>>, <<>>) }

\* the query parameters of GET /offers/ ; a parameter outside keys is not sent
ListParams(keys, creator, price, days, search, ordering, page, size) ==
    [keys |-> keys, creator_id |-> creator, min_price |-> price,
     max_delivery_time |-> days, search |-> search,
     ordering |-> ordering, page |-> page, page_size |-> size]

NoParams == ListParams({}, "", 0, 0, <<>>, "", 1, page_size)

\* the filters tried: each alone, and conjunctions
ListFilters ==
    { NoParams }
    \cup { [NoParams EXCEPT !.keys = {"creator_id"}, !.creator_id = u] :
             u \in {"b1", "c1"} }
    \cup { [NoParams EXCEPT !.keys = {"min_price"}, !.min_price = x] :
             x \in {0, 5000, 5001} }
    \cup { [NoParams EXCEPT !.keys = {"max_delivery_time"},
                            !.max_delivery_time = x] : x \in {0, 2} }
    \cup { [NoParams EXCEPT !.keys = {"search"}, !.search = v] :
             v \in {<<"a", "B">>, <<"b", "a">>, <<"a", "a">>} }
    \cup { [NoParams EXCEPT !.keys = {"creator_id", "min_price"},
                            !.creator_id = "b1", !.min_price = 5001],
           [NoParams EXCEPT !.keys = {"min_price", "max_delivery_time", "search"},
                            !.min_price = 5000, !.max_delivery_time = 2,
                            !.search = <<"B">>] }

\* the orderings and pages tried, on a listing of everything or of the
\* offers of at least a price
ListOrderings ==
    { [f EXCEPT !.keys = f.keys \cup {"ordering"}, !.ordering = o] :
        f \in { NoParams,
                [NoParams EXCEPT !.keys = {"min_price"}, !.min_price = 5000] },
        o \in {"min_price", "-min_price", "updated_at", "title"} }
    \cup
    { [NoParams EXCEPT !.keys = {"ordering", "page", "page_size"},
                      !.ordering = o, !.page = pg, !.page_size = 1] :
        o \in {"min_price", "-min_price", "title"}, pg \in {1, 2} }
    \cup { [NoParams EXCEPT !.keys = {"page", "page_size"}, !.page = pg,
                            !.page_size = 1] : pg \in {1, 2, 3} }
    \cup { [NoParams EXCEPT !.keys = {"page"}, !.page = 2],
           [NoParams EXCEPT !.keys = {"page_size"}, !.page_size = 0] }

ListQueries == ListFilters \cup ListOrderings

\* Offers written by the business users, listed by the anonymous caller and
\* retrieved by a customer and by the anonymous caller
NextCatalog ==
    \/ \E c \in BusinessUsers, d \in ListingCreatePayloads : createOffer(c, d)
    \/ \E c \in BusinessUsers, i \in 1..MaxOfferId, d \in ListingPatchPayloads :
          updateOffer(c, i, d)
    \/ \E c \in BusinessUsers, i \in 1..MaxOfferId : deleteOffer(c, i)
    \/ \E q \in ListQueries : listOffers(Anonymous, q)
    \/ \E c \in {"c1", Anonymous}, i \in 1..MaxOfferId : getOffer(c, i)

SpecCatalog == Init /\ [][NextCatalog]_vars

\* Every kind of caller: the two business users, the customer, the staff
\* user and the request without credentials
OrderCallers == Callers \cup StaffUsers

\* bodies of POST /offers/ and PATCH /offers/{id}/ of the order scenarios
DeskCreatePayloads ==
    { OfferPayload([title |-> "T1", description |-> "D1",
                    image |-> Absent, user |-> Absent], TRUE, <<Basic>>) }

DeskPatchPayloads ==
    { OfferPayload(NoScalars, TRUE, <<Premium>>) }

\* bodies of POST /orders/ : a detail id, stored or not
DeskOrderPayloads ==
    [keys : {{"offer_detail_id"}}, offer_detail_id : DetailIds,
     status : {Absent}, title : {Absent}]

\* bodies of PATCH /orders/{id}/ : each status, and a value that is none
StatusPayloads ==
    [keys : {{"status"}}, offer_detail_id : {0},
     status : STATUS_CHOICES \cup {"shipped"}, title : {Absent}]

\* Offers and orders with every kind of caller on every operation
NextOrder ==
    \/ \E c \in OrderCallers, d \in DeskCreatePayloads : createOffer(c, d)
    \/ \E c \in OrderCallers, i \in OfferIds, d \in DeskPatchPayloads :
          updateOffer(c, i, d)
    \/ \E c \in OrderCallers, i \in OfferIds : deleteOffer(c, i)
    \/ \E c \in OrderCallers, d \in DeskOrderPayloads : createOrder(c, d)
    \/ \E c \in OrderCallers, i \in OrderIds, d \in StatusPayloads :
          updateOrderStatus(c, i, d)
    \/ \E c \in OrderCallers, i \in OrderIds : deleteOrder(c, i)

SpecOrder == Init /\ [][NextOrder]_vars

\* the details collections of the concurrent patches: no detail in common
PatchLists == { <<Premium>>, <<Express, Basic>> }

PatchPayloads == { OfferPayload(NoScalars, TRUE, dl) : dl \in PatchLists }

\* An offer of b1 and PATCH requests on it that run on the workers at the
\* same time
NextPatch ==
    \/ \E d \in DeskCreatePayloads : createOffer("b1", d)
    \/ \E w \in Workers, c \in BusinessUsers, i \in 1..MaxOfferId,
          d \in PatchPayloads : updateOffer_save(w, c, i, d)
    \/ \E w \in Workers : updateOffer_delete(w)
    \/ \E w \in Workers : updateOffer_insert(w)

SpecPatch == Init /\ [][NextPatch]_vars

\* details the serializer rejects: delivery time 0, a negative price
Rush == Detail("Rush", 1, 0, 5000, <<>>, "standard")
Debt == Detail("Debt", 1, 3, -100, <<>>, "premium")

\* details collections: valid ones, and ones with a detail out of range
DetailLists ==
    { <<Basic>>, <<Premium>>, <<Free>>, <<Gold>>, <<Rush>>, <<Debt>>,
      <<Basic, Rush>>, <<Gold, Premium>> }

\* bodies of POST /offers/ and PATCH /offers/{id}/ with those collections
DetailCreatePayloads ==
    { OfferPayload([title |-> "T1", description |-> "D1",
                    image |-> Absent, user |-> Absent], TRUE, dl) :
        dl \in DetailLists }

DetailPatchPayloads == { OfferPayload(NoScalars, TRUE, dl) : dl \in DetailLists }

\* Offers created, patched and deleted by the business users
NextDetail ==
    \/ \E c \in BusinessUsers, d \in DetailCreatePayloads : createOffer(c, d)
    \/ \E c \in BusinessUsers, i \in 1..MaxOfferId, d \in DetailPatchPayloads :
          updateOffer(c, i, d)
    \/ \E c \in BusinessUsers, i \in 1..MaxOfferId : deleteOffer(c, i)

SpecDetail == Init /\ [][NextDetail]_vars

\* Orders placed by the customer on the offers of the two business users,
\* listed and retrieved by every kind of caller, deleted by the staff user
NextOrderList ==
    \/ \E c \in BusinessUsers, d \in DeskCreatePayloads : createOffer(c, d)
    \/ \E c \in CustomerUsers, d \in DeskOrderPayloads : createOrder(c, d)
    \/ \E c \in OrderCallers : listOrders(c)
    \/ \E c \in OrderCallers, i \in OrderIds : getOrder(c, i)
    \/ \E c \in StaffUsers, i \in OrderIds : deleteOrder(c, i)

SpecOrderList == Init /\ [][NextOrderList]_vars

\* bodies of POST /reviews/ : a rating below, inside and above 1..5
ModerationCreatePayloads ==
    { ReviewPayload(ReviewKeys, b, r, "good") :
        b \in BusinessUsers, r \in {0, 3, 6} }

\* bodies of PATCH /reviews/{id}/ : a rating, or a description
ModerationPatchPayloads ==
    { ReviewPayload({"rating"}, "b2", r, "edited") : r \in {0, 4, 6} }
        \cup { ReviewPayload({"description"}, "b2", 0, "edited") }

\* Reviews written, edited and deleted, with every kind of caller
NextModeration ==
    \/ \E w \in Workers, c \in OrderCallers, d \in ModerationCreatePayloads :
          createReview(w, c, d)
    \/ \E w \in Workers : createReview_insert(w)
    \/ \E c \in OrderCallers, i \in ReviewIds, d \in ModerationPatchPayloads :
          updateReview(c, i, d)
    \/ \E c \in OrderCallers, i \in ReviewIds : deleteReview(c, i)

SpecModeration == Init /\ [][NextModeration]_vars

\* Orders placed against a changing catalog; the callers are the
\* authenticated users
Next ==
    \/ \E c \in Users, d \in CatalogCreatePayloads : createOffer(c, d)
    \/ \E c \in Users, i \in 1..MaxOfferId, d \in CatalogPatchPayloads :
          updateOffer(c, i, d)
    \/ \E c \in Users, i \in 1..MaxOfferId : deleteOffer(c, i)
    \/ \E c \in Users, d \in OrderCreatePayloads : createOrder(c, d)
    \/ \E c \in Users, i \in 1..MaxOrderId, d \in OrderPatchPayloads :
          updateOrderStatus(c, i, d)

Spec == Init /\ [][Next]_vars

(***************************************************************************)
(* Orders are snapshots.                                                   *)
(***************************************************************************)
Snapshot(order) ==
    <<order.customer_user, order.business_user, order.title, order.revisions,
      order.delivery_time_in_days, order.price, order.features,
      order.offer_type>>

\* C1: every step of createOffer, updateOffer, deleteOffer, createOrder and
\* updateOrderStatus keeps every existing Order, with the same customer,
\* business user, title, revisions, delivery time, price, features and tier;
\* only its status can differ.
C1_OrderSnapshotImmutable ==
    [][\A i \in DOMAIN orders :
          /\ i \in DOMAIN orders'
          /\ Snapshot(orders'[i]) = Snapshot(orders[i])]_vars

\* an order that was completed and whose source offer has then been deleted
C1_Witness ==
    /\ last.op = "deleteOffer"
    /\ last.status = "no_content"
    /\ \E i \in DOMAIN orders :
          /\ orders[i].status = "completed"
          /\ orders[i].title = "Premium"
          /\ \A d \in DOMAIN details : details[d].title # "Premium"

\* C2: createOrder by a customer with a body that names an existing detail
\* (and nothing else) adds exactly one Order: its customer is the caller, its
\* business user the owner of the detail's offer before the call, its six
\* snapshot fields those of the detail before the call, its status
\* in_progress; the other Orders stay as they are.
C2_CreateOrderSnapshots ==
    [][last'.op = "createOrder" =>
        \A c \in Callers, d \in OrderCreatePayloads :
          ( /\ IsCustomer(c)
            /\ d.keys = {"offer_detail_id"}
            /\ d.offer_detail_id \in DOMAIN details
            /\ createOrder(c, d) )
          => /\ last'.status = "created"
             /\ last'.id \notin DOMAIN orders
             /\ DOMAIN orders' = DOMAIN orders \cup {last'.id}
             /\ \A i \in DOMAIN orders : orders'[i] = orders[i]
             /\ orders'[last'.id] =
                   [customer_user |-> c,
                    business_user |-> offers[details[d.offer_detail_id].offer].user,
                    title |-> details[d.offer_detail_id].title,
                    revisions |-> details[d.offer_detail_id].revisions,
                    delivery_time_in_days |->
                        details[d.offer_detail_id].delivery_time_in_days,
                    price |-> details[d.offer_detail_id].price,
                    features |-> details[d.offer_detail_id].features,
                    offer_type |-> details[d.offer_detail_id].offer_type,
                    status |-> "in_progress"]]_vars

\* a second order has just been created, from a Premium detail of b2's offer
C2_Witness ==
    /\ last.op = "createOrder"
    /\ last.status = "created"
    /\ last.id = 2
    /\ orders[2].business_user = "b2"
    /\ orders[2].customer_user = "c1"
    /\ orders[2].price = 15000
    /\ orders[2].status = "in_progress"

\* C3: createOrder by a customer with a detail id that matches no stored
\* detail ends with a validation error and leaves the Orders as they are.
C3_CreateOrderUnknownDetail ==
    [][last'.op = "createOrder" =>
        \A c \in Callers, d \in OrderCreatePayloads :
          ( /\ IsCustomer(c)
            /\ Has(d, "offer_detail_id")
            /\ d.offer_detail_id \notin DOMAIN details
            /\ createOrder(c, d) )
          => /\ last'.status = "validation_error"
             /\ orders' = orders
             /\ nextOrderId' = nextOrderId]_vars

\* the id of a detail that an update or a delete removed was just refused
C3_Witness ==
    /\ last.op = "createOrder"
    /\ last.status = "validation_error"
    /\ last.detail = InvalidId
    /\ nextDetailId > 1
    /\ 1 \notin DOMAIN details

(***************************************************************************)
(* Reviews: one per (business_user, reviewer).                             *)
(***************************************************************************)
ReviewsOfPair(table, business_user, reviewer) ==
    {i \in DOMAIN table : /\ table[i].business_user = business_user
                          /\ table[i].reviewer = reviewer}

\* C4: a createReview request for a pair that has a Review when the request
\* runs its pre-check ends there with a validation error (the duplicate
\* message when the body is valid), and the Reviews are unchanged: one Review
\* of the pair exists afterwards.
C4_DuplicateReviewRejected ==
    [][(last'.op = "createReview" \/ pc' # pc) =>
        \A w \in Workers, c \in Callers, d \in ReviewCreatePayloads :
          ( /\ ReviewsOfPair(reviews, d.business_user, c) # {}
            /\ createReview(w, c, d) )
          => /\ pc'[w] = "idle"
             /\ last'.op = "createReview"
             /\ last'.status = "validation_error"
             /\ d.keys = ReviewKeys => last'.detail = AlreadyReviewed
             /\ reviews' = reviews
             /\ Cardinality(ReviewsOfPair(reviews', d.business_user, c)) = 1]_vars

\* the duplicate was refused while the reviewer's first review is stored
C4_Witness ==
    /\ last.op = "createReview"
    /\ last.status = "validation_error"
    /\ last.detail = AlreadyReviewed
    /\ \A w \in Workers : pc[w] = "idle"
    /\ Cardinality(ReviewsOfPair(reviews, "b1", "c1")) = 1

\* C5: in every state, whatever the interleaving of the pre-checks and
\* inserts of concurrent createReview requests and of review updates and
\* deletes, no two Reviews have the same (business_user, reviewer).
C5_OneReviewPerPair ==
    \A i, j \in DOMAIN reviews :
        ( /\ reviews[i].business_user = reviews[j].business_user
          /\ reviews[i].reviewer = reviews[j].reviewer ) => i = j

\* two requests of one pair both passed the pre-check and one insert was
\* refused by the table
C5_Witness ==
    /\ last.op = "createReview"
    /\ last.status = "server_error"
    /\ Cardinality(ReviewsOfPair(reviews, "b1", "c1")) = 1
    /\ \E i \in DOMAIN reviews : reviews[i].rating = 1

\* C6: a createReview request whose insert the table refuses ends like one
\* the pre-check refuses: with the validation error of the duplicate, not
\* with a server error.
C6_RaceLoserGetsConflict ==
    [][\A w \in Workers :
          ( /\ pc[w] = "checked"
            /\ ReviewsOfPair(reviews, req[w].business_user, req[w].reviewer) # {}
            /\ createReview_insert(w) )
          => /\ last'.status = "validation_error"
             /\ last'.detail = AlreadyReviewed]_vars

(***************************************************************************)
(* Offers and their details.                                               *)
(***************************************************************************)
Tiers(details_data) ==
    {details_data[k].offer_type : k \in DOMAIN details_data}

\* C7: an updateOffer with a details collection merges by tier: a detail of
\* the offer whose tier the patch does not name stays, id and fields; a
\* detail whose tier the patch names keeps its id; a tier the offer did not
\* have gets one new detail.
C7_MergeByTier ==
    [][(last'.op = "updateOffer" /\ last'.status = "ok") =>
        \A c \in Callers, id \in OfferIds, p \in OfferPatchPayloads :
          (Has(p, "details") /\ updateOffer(c, id, p))
          => /\ \A d \in DetailsOf(id) :
                   details[d].offer_type \notin Tiers(p.details)
                   => d \in DOMAIN details' /\ details'[d] = details[d]
             /\ \A d \in DetailsOf(id) :
                   details[d].offer_type \in Tiers(p.details)
                   => /\ d \in DOMAIN details'
                      /\ details'[d].offer = id
                      /\ details'[d].offer_type = details[d].offer_type
             /\ \A t \in Tiers(p.details) :
                   (\A d \in DetailsOf(id) : details[d].offer_type # t)
                   => Cardinality({d \in DOMAIN details' \ DOMAIN details :
                                     /\ details'[d].offer = id
                                     /\ details'[d].offer_type = t}) = 1]_vars

\* C8: an updateOffer by the owner leaves the other Offers alone and, of the
\* Offer itself, sets title, description and image to the patch's value where
\* the patch carries the key (and is accepted) and keeps the prior value
\* where it does not; without a details key the details table is unchanged.
\* (A step that does not answer ok and leaves offers and details as they are
\* satisfies this whatever the patch; a step that answers ok names its offer.)
C8_PartialUpdate ==
    [][( /\ last'.op = "updateOffer"
         /\ \/ last'.status = "ok"
            \/ offers' # offers
            \/ details' # details ) =>
        \A id \in (IF last'.status = "ok" THEN {last'.id} ELSE OfferIds)
                     \cap DOMAIN offers :
          \A p \in OfferPatchPayloads :
          updateOffer(offers[id].user, id, p)
          => /\ DOMAIN offers' = DOMAIN offers
             /\ \A j \in DOMAIN offers \ {id} : offers'[j] = offers[j]
             /\ offers'[id].title =
                   IF Has(p, "title") /\ last'.status = "ok"
                   THEN p.title ELSE offers[id].title
             /\ offers'[id].description =
                   IF Has(p, "description") /\ last'.status = "ok"
                   THEN p.description ELSE offers[id].description
             /\ offers'[id].image =
                   IF Has(p, "image") /\ last'.status = "ok"
                   THEN p.image ELSE offers[id].image
             /\ ~Has(p, "details") => details' = details]_vars

\* the owner patched the title alone (description and image are still those
\* of an earlier patch), and the offer's detail is the one it was created with
C8_Witness ==
    /\ last.op = "updateOffer"
    /\ last.status = "ok"
    /\ last.id = 2
    /\ offers[2].title = "T2"
    /\ offers[2].description = "D1"
    /\ offers[2].image = "img"
    /\ 1 \in DOMAIN offers
    /\ offers[1].title = "T1"
    /\ DetailsOf(2) = {2}

\* C9: the owner of an Offer is the caller of the createOffer that made it,
\* and no step changes the owner of an existing Offer.
C9_OwnerImmutable ==
    [][/\ \A i \in DOMAIN offers \cap DOMAIN offers' :
             offers'[i].user = offers[i].user
       /\ (last'.op = "createOffer" /\ last'.status = "created") =>
             \A c \in Callers, d \in OfferCreatePayloads :
                 createOffer(c, d) =>
                     /\ last'.id \notin DOMAIN offers
                     /\ offers'[last'.id].user = c]_vars

\* b1's offer has been patched (title, description and image all differ from
\* what createOffer stores) and is still b1's, next to an offer of b2
C9_Witness ==
    /\ last.op = "updateOffer"
    /\ last.status = "ok"
    /\ offers[last.id].user = "b1"
    /\ offers[last.id].title = "T2"
    /\ offers[last.id].description = "D2"
    /\ offers[last.id].image = "img"
    /\ \E j \in DOMAIN offers : offers[j].user = "b2"

\* C10: createOffer with an empty details collection ends with a validation
\* error and stores no Offer, and an Offer that createOffer stored has a
\* detail right after the call.
C10_CreateOfferNeedsDetail ==
    [][last'.op = "createOffer" =>
        \A c \in Callers, d \in OfferCreatePayloads :
          createOffer(c, d)
          => /\ (IsBusinessUser(c) /\ Has(d, "details") /\ Len(d.details) = 0)
                => (last'.status = "validation_error" /\ offers' = offers)
             /\ last'.status = "created"
                => \E i \in DOMAIN details' : details'[i].offer = last'.id]_vars

(***************************************************************************)
(* Nested writes of an Offer and its details.                              *)
(***************************************************************************)
\* C11: a createOffer or updateOffer that does not succeed (a validation
\* error of any detail, or a failure of the storage while a detail is being
\* persisted) leaves the Offers and the Detail Records exactly as they were.
C11_AllOrNothing ==
    [][( /\ last'.op \in {"createOffer", "updateOffer"}
         /\ last'.status \notin {"created", "ok"} )
       => (offers' = offers /\ details' = details)]_vars

(***************************************************************************)
(* The listing: derived minimum price and delivery time, filters, order.   *)
(***************************************************************************)
\* the true minimum of a field over the current details of an offer, 0 when
\* it has none
TrueMin(id, field) ==
    IF \A d \in DOMAIN details : details[d].offer # id THEN 0
    ELSE CHOOSE m \in {details[d][field] : d \in DOMAIN details} :
            /\ \E d \in DOMAIN details :
                  details[d].offer = id /\ details[d][field] = m
            /\ \A d \in DOMAIN details :
                  details[d].offer = id => details[d][field] >= m

\* C12: the min_price and min_delivery_time that a response reports of an
\* Offer are the true minima over its current details (0 without details),
\* in the listing and in the retrieval alike.
C12_AggregatesReported ==
    /\ (last.op = "listOffers" /\ last.status = "ok") =>
          \A i \in DOMAIN last.detail.results :
              /\ Has(last.detail.results[i], "min_price")
              /\ Has(last.detail.results[i], "min_delivery_time")
              /\ last.detail.results[i].min_price =
                    TrueMin(last.detail.results[i].id, "price")
              /\ last.detail.results[i].min_delivery_time =
                    TrueMin(last.detail.results[i].id, "delivery_time_in_days")
    /\ (last.op = "getOffer" /\ last.status = "ok") =>
          /\ Has(last.detail, "min_price")
          /\ Has(last.detail, "min_delivery_time")
          /\ last.detail.min_price = TrueMin(last.id, "price")
          /\ last.detail.min_delivery_time =
                TrueMin(last.id, "delivery_time_in_days")

\* the ids of the offers on the page of a listing response
Returned(response) ==
    {response.detail.results[i].id : i \in DOMAIN response.detail.results}

WithDetails == {id \in DOMAIN offers : \E d \in DOMAIN details : details[d].offer = id}

LowerText(text) == [i \in DOMAIN text |-> Lower(text[i])]

IsSubstringIgnoringCase(value, text) ==
    \E i \in 1..(Len(text) + 1), j \in 0..Len(text) :
        SubSeq(LowerText(text), i, j) = LowerText(value)

\* the offers with details that satisfy every filter the query supplies
Matching(q) ==
    {id \in WithDetails :
        /\ "creator_id" \in q.keys => offers[id].user = q.creator_id
        /\ "min_price" \in q.keys => TrueMin(id, "price") >= q.min_price
        /\ "max_delivery_time" \in q.keys =>
              TrueMin(id, "delivery_time_in_days") <= q.max_delivery_time
        /\ "search" \in q.keys =>
              \/ IsSubstringIgnoringCase(q.search, offers[id].title)
              \/ IsSubstringIgnoringCase(q.search, offers[id].description)}

\* C13: of the offers that have details, a page of listOffers holds only
\* offers that satisfy every supplied filter, the listing counts every such
\* offer, and a listing that fits on its page holds exactly them.
C13_ListFilters ==
    (last.op = "listOffers" /\ last.status = "ok") =>
        /\ Returned(last) \cap WithDetails \subseteq Matching(last.detail.query)
        /\ last.detail.count >= Cardinality(Matching(last.detail.query))
        /\ Len(last.detail.results) = last.detail.count =>
              Returned(last) \cap WithDetails = Matching(last.detail.query)

\* a minimum price was asked for that the dearer detail of an offer meets
\* and its cheaper one does not: the offer is not listed
C13_Witness ==
    /\ last.op = "listOffers"
    /\ last.status = "ok"
    /\ last.detail.query.keys = {"min_price"}
    /\ last.detail.query.min_price = 5001
    /\ last.detail.count = 0
    /\ \E id \in DOMAIN offers :
          /\ Cardinality(DetailsOf(id)) = 2
          /\ \E d \in DetailsOf(id) : details[d].price >= 5001

\* C14: an Offer without details, reported with min_price 0 and
\* min_delivery_time 0, is listed under minPrice = 0 and under any
\* maxDeliveryTime >= 0, and is not listed under a minPrice > 0.
C14_EmptySentinelInFilters ==
    (last.op = "listOffers" /\ last.status = "ok") =>
        \A id \in DOMAIN offers \ WithDetails :
            /\ ( /\ last.detail.query.keys = {"min_price"}
                 /\ last.detail.query.min_price = 0 ) => id \in Returned(last)
            /\ ( /\ last.detail.query.keys = {"max_delivery_time"}
                 /\ last.detail.query.max_delivery_time >= 0 )
               => id \in Returned(last)
            /\ ( /\ "min_price" \in last.detail.query.keys
                 /\ last.detail.query.min_price > 0 ) => id \notin Returned(last)

\* the ids of a listing response, in the order of the page
PageIds(response) ==
    [i \in DOMAIN response.detail.results |-> response.detail.results[i].id]

\* whether page is the slice number (of the given size) of whole
IsSlice(page, whole, number, size) ==
    /\ Len(page) = IF Len(whole) - (number - 1) * size > size THEN size
                   ELSE Len(whole) - (number - 1) * size
    /\ \A i \in 1..Len(page) : page[i] = whole[(number - 1) * size + i]

Arrangements(S) ==
    {seq \in [1..Cardinality(S) -> S] :
        \A i, j \in 1..Cardinality(S) : seq[i] = seq[j] => i = j}

\* C15: listOffers ordered by min_price returns a page whose reported minimum
\* prices do not decrease and which is the slice of the whole filtered set
\* sorted by the true minimum price; with no ordering or one outside the
\* allow-list the page is the slice of the filtered set by updated_at,
\* latest first, and the first page is answered without an error.
C15_OrderedPages ==
    last.op = "listOffers" =>
        LET q == last.detail.query
            number == IF "page" \in q.keys THEN q.page ELSE 1
            size == IF "page_size" \in q.keys /\ q.page_size >= 1
                    THEN q.page_size ELSE 10
            named == "ordering" \in q.keys
        IN /\ last.status \in {"ok", "not_found"}
           /\ number = 1 => last.status = "ok"
           /\ (last.status = "ok" /\ named /\ q.ordering = "min_price") =>
                 /\ \A i, j \in DOMAIN last.detail.results :
                       i < j => last.detail.results[i].min_price
                                  <= last.detail.results[j].min_price
                 /\ \E whole \in Arrangements(OfferFilter(q)) :
                       /\ \A i, j \in DOMAIN whole :
                             i < j => TrueMin(whole[i], "price")
                                        <= TrueMin(whole[j], "price")
                       /\ IsSlice(PageIds(last), whole, number, size)
           /\ ( /\ last.status = "ok"
                /\ ~named \/ q.ordering \notin {"min_price", "-min_price",
                                                 "updated_at", "-updated_at"} ) =>
                 \E whole \in Arrangements(OfferFilter(q)) :
                    /\ \A i, j \in DOMAIN whole :
                          i < j => Position(updated_at, whole[i])
                                     > Position(updated_at, whole[j])
                    /\ IsSlice(PageIds(last), whole, number, size)

\* the cheaper offer is the older one: by min_price it is first, on a page
\* of one, although the dearer offer was saved later
C15_Witness ==
    /\ last.op = "listOffers"
    /\ last.status = "ok"
    /\ "ordering" \in last.detail.query.keys
    /\ last.detail.query.ordering = "min_price"
    /\ "page_size" \in last.detail.query.keys
    /\ last.detail.query.page_size = 1
    /\ last.detail.query.page = 1
    /\ last.detail.count = 2
    /\ last.detail.results[1].min_price = 5000
    /\ updated_at[2] # last.detail.results[1].id
    /\ \E id \in DOMAIN offers : TrueMin(id, "price") = 15000

(***************************************************************************)
(* Order status and who may change it.                                     *)
(***************************************************************************)
\* the callers that are logged in
LoggedIn == OrderCallers \ {Anonymous}

\* the outcomes that reject a request for what the caller is
Rejections == {"not_authenticated", "forbidden", "not_found"}

\* C16: the status of an Order changes only in a step that is an
\* updateOrderStatus of that order called by its business participant, and an
\* updateOrderStatus of an existing order by any other caller (its customer,
\* another business user, the staff user, the caller without credentials) is
\* rejected and leaves the Orders as they are.
C16_OnlyBusinessParticipantChangesStatus ==
    [][ /\ \A i \in DOMAIN orders :
              (i \in DOMAIN orders' /\ orders'[i].status # orders[i].status)
              => /\ last'.op = "updateOrderStatus"
                 /\ last'.status = "ok"
                 /\ last'.id = i
                 /\ \E d \in StatusPayloads :
                       updateOrderStatus(orders[i].business_user, i, d)
        /\ last'.op = "updateOrderStatus"
           => \A c \in OrderCallers, i \in DOMAIN orders, d \in StatusPayloads :
                 (c # orders[i].business_user /\ updateOrderStatus(c, i, d))
                 => /\ last'.status \in Rejections
                    /\ orders' = orders ]_vars

\* the customer of an order that is completed asked for another status and
\* was refused
C16_Witness ==
    /\ last.op = "updateOrderStatus"
    /\ last.status = "forbidden"
    /\ \E i \in DOMAIN orders :
          /\ orders[i].customer_user \in CustomerUsers
          /\ orders[i].status = "completed"

\* C17: the status of every Order is in_progress, completed or cancelled; an
\* Order that createOrder has just made is in_progress; whatever the status
\* of an order, its business participant's updateOrderStatus with any of the
\* three values succeeds and sets it, and with another value it ends with a
\* validation error and leaves the Orders as they are.
C17_StatusMachine ==
    /\ [](\A i \in DOMAIN orders :
             orders[i].status \in {"in_progress", "completed", "cancelled"})
    /\ [][ /\ (last'.op = "createOrder" /\ last'.status = "created")
              => /\ last'.id \in DOMAIN orders' \ DOMAIN orders
                 /\ orders'[last'.id].status = "in_progress"
           /\ last'.op = "updateOrderStatus"
              => \A i \in DOMAIN orders, d \in StatusPayloads :
                    updateOrderStatus(orders[i].business_user, i, d)
                    => IF d.status \in {"in_progress", "completed", "cancelled"}
                       THEN /\ last'.status = "ok"
                            /\ orders' = [orders EXCEPT ![i].status = d.status]
                       ELSE /\ last'.status = "validation_error"
                            /\ orders' = orders ]_vars

\* a status outside the three was refused while one order is cancelled and
\* another is completed
C17_Witness ==
    /\ last.op = "updateOrderStatus"
    /\ last.status = "validation_error"
    /\ \E i, j \in DOMAIN orders :
          /\ orders[i].status = "cancelled"
          /\ orders[j].status = "completed"

(***************************************************************************)
(* Deleting an offer.                                                      *)
(***************************************************************************)
\* C18: the parent Offer of every stored detail exists; deleteOffer by the
\* owner removes the Offer and exactly the details whose parent it is, and
\* no deleteOffer changes the Orders.
C18_DeleteCascades ==
    /\ [](\A d \in DOMAIN details : details[d].offer \in DOMAIN offers)
    /\ [][ /\ last'.op = "deleteOffer" => orders' = orders
           /\ \A c \in OrderCallers, i \in DOMAIN offers :
                 (offers[i].user = c /\ deleteOffer(c, i))
                 => /\ DOMAIN offers' = DOMAIN offers \ {i}
                    /\ \A j \in DOMAIN offers' : offers'[j] = offers[j]
                    /\ DOMAIN details' =
                          {d \in DOMAIN details : details[d].offer # i}
                    /\ \A d \in DOMAIN details' : details'[d] = details[d]
                    /\ orders' = orders ]_vars

\* the only offer ever created was deleted with its detail after an order
\* was placed on it
C18_Witness ==
    /\ last.op = "deleteOffer"
    /\ last.status = "no_content"
    /\ nextOfferId = 2
    /\ nextDetailId = 2
    /\ offers = <<>>
    /\ details = <<>>
    /\ orders # <<>>

(***************************************************************************)
(* Roles.                                                                  *)
(***************************************************************************)
\* C19: every Offer is owned by a business user and the customer of every
\* Order is a customer; createOffer succeeds only for a business caller and
\* createOrder only for a customer caller; createOffer by a customer and
\* createOrder by a business user end forbidden and store nothing.
C19_RoleGatedCreation ==
    /\ [](/\ \A i \in DOMAIN offers : offers[i].user \in BusinessUsers
          /\ \A i \in DOMAIN orders :
                orders[i].customer_user \in CustomerUsers)
    /\ [][ /\ last'.op = "createOffer"
              => \A c \in OrderCallers, d \in DeskCreatePayloads :
                    createOffer(c, d)
                    => /\ last'.status = "created" => c \in BusinessUsers
                       /\ c \in CustomerUsers
                          => /\ last'.status = "forbidden"
                             /\ offers' = offers
                             /\ details' = details
           /\ last'.op = "createOrder"
              => \A c \in OrderCallers, d \in DeskOrderPayloads :
                    createOrder(c, d)
                    => /\ last'.status = "created" => c \in CustomerUsers
                       /\ c \in BusinessUsers
                          => /\ last'.status = "forbidden"
                             /\ orders' = orders ]_vars

\* a createOrder was refused as forbidden while a detail to order was stored
C19_Witness ==
    /\ last.op = "createOrder"
    /\ last.status = "forbidden"
    /\ details # <<>>

(***************************************************************************)
(* Forbidden and not found.                                                *)
(***************************************************************************)
\* C20: updateOffer and deleteOffer of an existing Offer by a logged-in caller
\* who does not own it, and updateOrderStatus of an existing Order by a
\* logged-in caller who is not its business participant, end forbidden and
\* change nothing; these operations end not found only when the id matches no
\* stored object.
C20_ForbiddenNotNotFound ==
    [][ \A c \in LoggedIn :
          /\ \A i \in OfferIds, d \in DeskPatchPayloads :
                updateOffer(c, i, d)
                => /\ (i \in DOMAIN offers /\ offers[i].user # c)
                      => /\ last'.status = "forbidden"
                         /\ offers' = offers
                         /\ details' = details
                   /\ last'.status = "not_found" => i \notin DOMAIN offers
          /\ \A i \in OfferIds :
                deleteOffer(c, i)
                => /\ (i \in DOMAIN offers /\ offers[i].user # c)
                      => /\ last'.status = "forbidden"
                         /\ offers' = offers
                         /\ details' = details
                   /\ last'.status = "not_found" => i \notin DOMAIN offers
          /\ \A i \in OrderIds, d \in StatusPayloads :
                updateOrderStatus(c, i, d)
                => /\ (i \in DOMAIN orders /\ orders[i].business_user # c)
                      => /\ last'.status = "forbidden"
                         /\ orders' = orders
                   /\ last'.status = "not_found" => i \notin DOMAIN orders
      ]_vars

(***************************************************************************)
(* Reviews: who may change them, and their rating.                         *)
(***************************************************************************)
\* C21: updateReview and deleteReview of a stored Review by its reviewer or
\* by a staff user are not refused for what the caller is (deleteReview
\* removes the Review, updateReview passes on to the validation of the body),
\* and by any other logged-in caller they are rejected and leave the Reviews
\* as they are.
C21_ReviewerOrStaffMutates ==
    [][ /\ last'.op = "updateReview"
           => \A c \in LoggedIn, i \in DOMAIN reviews,
                 d \in ModerationPatchPayloads :
                 updateReview(c, i, d)
                 => IF c = reviews[i].reviewer \/ c \in StaffUsers
                    THEN last'.status \notin Rejections
                    ELSE /\ last'.status \in Rejections
                         /\ reviews' = reviews
        /\ last'.op = "deleteReview"
           => \A c \in LoggedIn, i \in DOMAIN reviews :
                 deleteReview(c, i)
                 => IF c = reviews[i].reviewer \/ c \in StaffUsers
                    THEN /\ last'.status = "no_content"
                         /\ i \notin DOMAIN reviews'
                    ELSE /\ last'.status \in Rejections
                         /\ reviews' = reviews ]_vars

\* the ratings a Review may hold
RatingRange == 1..5

\* C22: the rating of every stored Review is in 1..5; createReview with a
\* rating outside 1..5 ends with a validation error and starts no insert, and
\* updateReview by the reviewer with such a rating ends with a validation
\* error and leaves the Reviews as they are.
C22_RatingBounded ==
    /\ [](\A i \in DOMAIN reviews : reviews[i].rating \in RatingRange)
    /\ [][ /\ \A w \in Workers, c \in CustomerUsers,
                d \in ModerationCreatePayloads :
                 (d.rating \notin RatingRange /\ createReview(w, c, d))
                 => /\ last'.op = "createReview"
                    /\ last'.status = "validation_error"
                    /\ pc' = pc
           /\ last'.op = "updateReview"
              => \A i \in DOMAIN reviews, d \in ModerationPatchPayloads :
                    ( /\ Has(d, "rating")
                      /\ d.rating \notin RatingRange
                      /\ updateReview(reviews[i].reviewer, i, d) )
                    => /\ last'.status = "validation_error"
                       /\ reviews' = reviews ]_vars

(***************************************************************************)
(* Which orders a caller sees.                                             *)
(***************************************************************************)
\* the orders in which a user is the customer or the business user
OrdersOf(user) ==
    {i \in DOMAIN orders : orders[i].customer_user = user
                            \/ orders[i].business_user = user}

\* C23: listOrders answers a logged-in caller who is not staff with exactly
\* the Orders in which the caller is the customer or the business user, a
\* staff caller with all Orders, and a caller without credentials with none;
\* getOrder by a logged-in caller who is not staff and not a participant of
\* the Order never answers ok.
C23_OrdersVisibleToParticipants ==
    [][ /\ last'.op = "listOrders"
           => \A c \in OrderCallers :
                 listOrders(c)
                 => last'.detail.results =
                       IF c = Anonymous THEN {}
                       ELSE IF c \in StaffUsers THEN DOMAIN orders
                       ELSE OrdersOf(c)
        /\ last'.op = "getOrder"
           => \A c \in LoggedIn \ StaffUsers, i \in DOMAIN orders :
                 (i \notin OrdersOf(c) /\ getOrder(c, i))
                 => last'.status # "ok" ]_vars

\* of two stored orders a listing returned only the first: the caller is the
\* business user of that one and not of the other
C23_Witness ==
    /\ last.op = "listOrders"
    /\ last.status = "ok"
    /\ DOMAIN orders = {1, 2}
    /\ last.detail.results = {1}

(***************************************************************************)
(* The range of the fields of a detail.                                    *)
(***************************************************************************)
\* a detail with a positive price, at least a day of delivery and a tier of
\* the three
InRange(d) ==
    /\ d.price > 0
    /\ d.delivery_time_in_days >= 1
    /\ d.offer_type \in {"basic", "standard", "premium"}

C25_CreateOrderNoServerFault ==
    [][last'.op = "createOrder" =>
        \A c \in CustomerUsers, d \in OrderCreatePayloads :
          ( /\ Has(d, "offer_detail_id")
            /\ d.offer_detail_id \in DOMAIN details
            /\ createOrder(c, d) )
          => \/ /\ last'.status = "created"
                /\ last'.id \in DOMAIN orders'
                /\ orders'[last'.id].status = "in_progress"
             \/ /\ last'.status = "validation_error"
                /\ orders' = orders ]_vars

(***************************************************************************)
(* Two patches of one offer at the same time.                              *)
(***************************************************************************)
\* the ids of a set in ascending order
Ascending(S) ==
    CHOOSE seq \in [1..Cardinality(S) -> S] :
        \A a, b \in 1..Cardinality(S) : a < b => seq[a] < seq[b]

\* the details of an offer as a collection of a request: in the order of
\* their ids, without the key of the offer
StoredCollection(offerId) ==
    [k \in 1..Cardinality(DetailsOf(offerId)) |->
        Detail(details[Ascending(DetailsOf(offerId))[k]].title,
               details[Ascending(DetailsOf(offerId))[k]].revisions,
               details[Ascending(DetailsOf(offerId))[k]].delivery_time_in_days,
               details[Ascending(DetailsOf(offerId))[k]].price,
               details[Ascending(DetailsOf(offerId))[k]].features,
               details[Ascending(DetailsOf(offerId))[k]].offer_type)]

\* C26: whenever no updateOffer is under way, the details of every offer are
\* the collection of a single request (the one that created the offer or one
\* patch), never rows of two patches together.
C26_OneCollectionWins ==
    (\A w \in Workers : pc[w] = "idle")
    => \A i \in DOMAIN offers :
          StoredCollection(i) \in
              {d.details : d \in DeskCreatePayloads \cup PatchPayloads}

====
